---- MODULE Spec2Model ----
(***************************************************************************)
(* Model of the maintenance-issue pipeline of magneto/gmail.py (the batch  *)
(* script, main()) and magneto/backend.py (the FastAPI backend: get_emails,*)
(* classify_email, process_emails with its background tasks, and           *)
(* get_dashboard_stats).  The classifier, the sinks' payloads, the         *)
(* formatter and the report are also specified as functions of their       *)
(* inputs (SpecClassify, SpecTexts, SpecGlyphs, SpecStats).                *)
(*                                                                         *)
(* Text is modelled as a sequence of tokens.  A model completion is a      *)
(* sequence over                                                           *)
(*    "{"  "}"            the two characters the extraction looks for      *)
(*    "x"                 any run of other text that is not a JSON member  *)
(*    "category" ...      one JSON member  "key": value  of the object     *)
(* and the value each member carries is given by a separate table (vals).  *)
(* A JSON value is a tagged record [t, v]: a string, a list of strings or  *)
(* null.  A Python dict is a function whose DOMAIN is its key set.         *)
(***************************************************************************)
EXTENDS Integers, Sequences, FiniteSets, TLC

\* Bound: the longest model completion, in tokens.
MaxLen == 4
\* Bound: the largest number of messages the mail store returns to a fetch.
MaxIssues == 3

(***************************************************************************)
(* JSON values and dicts                                                   *)
(***************************************************************************)
Str(s) == [t |-> "str", v |-> <<s>>]
List(q) == [t |-> "list", v |-> q]
Null == [t |-> "null", v |-> <<>>]

EmptyDict == [k \in {} |-> Null]

\* d.get(k, default)
dict_get(d, k, default) == IF k \in DOMAIN d THEN d[k] ELSE default

\* d[k] = val
dict_set(d, k, val) == [x \in (DOMAIN d) \cup {k} |-> IF x = k THEN val ELSE d[x]]

\* d.setdefault(k, val): only a missing key is filled
dict_setdefault(d, k, val) == IF k \in DOMAIN d THEN d ELSE dict_set(d, k, val)

MAINTENANCE_CATEGORIES ==
    {"Electrical", "Plumbing", "IT Support", "HVAC", "General Inquiry"}

AnalysisFields == {"category", "summary", "priority", "root_cause", "action_items"}

\* a membership test that lets every string pass
InCategories_any_string(val) == val.t = "str"

\* `value in MAINTENANCE_CATEGORIES`: only a string equals a list element
InCategories(val) == val.t = "str" /\ val.v[1] \in MAINTENANCE_CATEGORIES

(***************************************************************************)
(* Outcomes of a call: a normal return with a value, or a raised exception *)
(***************************************************************************)
Return(val) == [kind |-> "return", exc |-> "", val |-> val]
Raise(e) == [kind |-> "raise", exc |-> e, val |-> EmptyDict]
Pending == [kind |-> "pending", exc |-> "", val |-> EmptyDict]

\* `except cls:` catches exc.  Every exception modelled derives from
\* Exception; JSONDecodeError derives from ValueError.
Catches(cls, exc) ==
    \/ cls = "Exception"
    \/ cls = exc
    \/ (cls = "ValueError" /\ exc = "JSONDecodeError")

(***************************************************************************)
(* Text operations of the extraction                                       *)
(***************************************************************************)
\* str.find(ch): 0-based index of the first occurrence, -1 when absent
find(s, ch) ==
    IF \E i \in 1..Len(s) : s[i] = ch
    THEN (CHOOSE i \in 1..Len(s) : s[i] = ch /\ \A j \in 1..(i - 1) : s[j] # ch) - 1
    ELSE -1

\* str.rfind(ch): 0-based index of the last occurrence, -1 when absent
rfind(s, ch) ==
    IF \E i \in 1..Len(s) : s[i] = ch
    THEN (CHOOSE i \in 1..Len(s) : s[i] = ch /\ \A j \in (i + 1)..Len(s) : s[j] # ch) - 1
    ELSE -1

\* s[a:b] for 0 <= a < b <= len(s)
slice(s, a, b) == SubSeq(s, a + 1, b)

MemberTokens == AnalysisFields
Tokens == {"{", "}", "x"} \cup MemberTokens

\* a lenient parser that skips what it cannot read inside the braces
json_loads_lenient(s, vals) ==
    IF Len(s) >= 2 /\ s[1] = "{" /\ s[Len(s)] = "}"
    THEN Return([k \in {s[i] : i \in 2..(Len(s) - 1)} \cap MemberTokens |-> vals[k]])
    ELSE Raise("JSONDecodeError")

\* json.loads on a text that starts with "{" : a dict when the text is one
\* object whose interior holds members only, JSONDecodeError otherwise
\* (text after the closing brace of the object, stray text or an unclosed
\* brace inside).  A repeated key keeps one entry.
json_loads(s, vals) ==
    IF /\ Len(s) >= 2
       /\ s[1] = "{"
       /\ s[Len(s)] = "}"
       /\ \A i \in 2..(Len(s) - 1) : s[i] \in MemberTokens
    THEN Return([k \in {s[i] : i \in 2..(Len(s) - 1)} |-> vals[k]])
    ELSE Raise("JSONDecodeError")

(***************************************************************************)
(* The language model: absent (handle is None), or a handle whose invoke   *)
(* raises, or a handle whose invoke returns a completion.                  *)
(***************************************************************************)
LlmAbsent == [kind |-> "absent", exc |-> "", text |-> <<>>, vals |-> EmptyDict]
LlmRaises(e) == [kind |-> "raises", exc |-> e, text |-> <<>>, vals |-> EmptyDict]
LlmCompletes(text, vals) == [kind |-> "completes", exc |-> "", text |-> text, vals |-> vals]

\* lines 183-206 of gmail.py / 249-264 of backend.py up to the parsed dict:
\* the outcome of invoke, find/rfind, the slice and json.loads
extract_json(llm) ==
    IF llm.kind = "raises" THEN Raise(llm.exc)
    ELSE LET response_text == llm.text
             json_start == find(response_text, "{")
             json_end == rfind(response_text, "}") + 1
         IN IF json_start # -1 /\ json_end > json_start
            THEN json_loads(slice(response_text, json_start, json_end), llm.vals)
            ELSE Raise("ValueError")

\* the f-string prompt reads issue['subject'], ['sender'], ['date'], ['snippet']
build_prompt(issue) ==
    IF {"subject", "sender", "date", "snippet"} \subseteq DOMAIN issue
    THEN Return(EmptyDict)
    ELSE Raise("KeyError")

(***************************************************************************)
(* classify_maintenance_issue of the batch script (gmail.py)               *)
(***************************************************************************)
gmail_no_llm_fallback(issue) ==
    [category |-> Str("General Inquiry"),
     summary |-> dict_get(issue, "snippet", Str("No summary available")),
     priority |-> Str("Medium"),
     root_cause |-> Str("Unable to determine (AI not configured)"),
     action_items |-> List(<<"Manual review required">>)]

\* one fallback record for both causes
gmail_except_fallback_same(issue) == gmail_no_llm_fallback(issue)

gmail_except_fallback(issue) ==
    [category |-> Str("General Inquiry"),
     summary |-> dict_get(issue, "snippet", Str("No summary available")),
     priority |-> Str("Medium"),
     root_cause |-> Str("Classification failed - manual review needed"),
     action_items |-> List(<<"Manual classification required", "Review email content">>)]

\* lines 194-204: validate the category, fill the missing fields
gmail_repair(issue, analysis) ==
    LET a0 == IF ~InCategories(dict_get(analysis, "category", Null))
              THEN dict_set(analysis, "category", Str("General Inquiry"))
              ELSE analysis
        a1 == dict_setdefault(a0, "summary", dict_get(issue, "snippet", Str("No summary")))
        a2 == dict_setdefault(a1, "priority", Str("Medium"))
        a3 == dict_setdefault(a2, "root_cause", Str("To be determined"))
    IN dict_setdefault(a3, "action_items", List(<<"Review and assess">>))

\* the body of the try block, lines 150-206
gmail_classify_try(issue, llm) ==
    LET p == build_prompt(issue)
        j == extract_json(llm)
    IN IF p.kind = "raise" THEN p
       ELSE IF j.kind = "raise" THEN j
       ELSE Return(gmail_repair(issue, j.val))

\* a handler that names ValueError only
gmail_classify_except_narrow == "ValueError"

\* the class named by the except clause of line 208
gmail_classify_except == "Exception"

gmail_classify_maintenance_issue(issue, llm) ==
    IF llm.kind = "absent" THEN Return(gmail_no_llm_fallback(issue))
    ELSE LET r == gmail_classify_try(issue, llm)
         IN IF r.kind = "raise" /\ Catches(gmail_classify_except, r.exc)
            THEN Return(gmail_except_fallback(issue))
            ELSE r

(***************************************************************************)
(* classify_maintenance_issue of the API backend (backend.py)              *)
(***************************************************************************)
\* a fallback that escalates the issue
backend_no_llm_fallback_high(issue) ==
    [category |-> Str("General Inquiry"),
     summary |-> dict_get(issue, "snippet", Str("No summary available")),
     priority |-> Str("High"),
     root_cause |-> Str("AI not configured - manual review needed"),
     action_items |-> List(<<"Manual classification required">>)]

\* lines 211-218
backend_no_llm_fallback(issue) ==
    [category |-> Str("General Inquiry"),
     summary |-> dict_get(issue, "snippet", Str("No summary available")),
     priority |-> Str("Medium"),
     root_cause |-> Str("AI not configured - manual review needed"),
     action_items |-> List(<<"Manual classification required">>)]

backend_except_fallback(issue) ==
    [category |-> Str("General Inquiry"),
     summary |-> dict_get(issue, "snippet", Str("No summary")),
     priority |-> Str("Medium"),
     root_cause |-> Str("Classification failed"),
     action_items |-> List(<<"Manual review required">>)]

\* lines 259-262: the category is validated; no other field is filled
backend_repair(issue, analysis) ==
    IF ~InCategories(dict_get(analysis, "category", Null))
    THEN dict_set(analysis, "category", Str("General Inquiry"))
    ELSE analysis

backend_classify_try(issue, llm) ==
    LET p == build_prompt(issue)
        j == extract_json(llm)
    IN IF p.kind = "raise" THEN p
       ELSE IF j.kind = "raise" THEN j
       ELSE Return(backend_repair(issue, j.val))

\* the class named by the except clause of line 266
backend_classify_except == "Exception"

backend_classify_maintenance_issue(issue, llm) ==
    IF llm.kind = "absent" THEN Return(backend_no_llm_fallback(issue))
    ELSE LET r == backend_classify_try(issue, llm)
         IN IF r.kind = "raise" /\ Catches(backend_classify_except, r.exc)
            THEN Return(backend_except_fallback(issue))
            ELSE r

classify(module, issue, llm) ==
    IF module = "gmail" THEN gmail_classify_maintenance_issue(issue, llm)
    ELSE backend_classify_maintenance_issue(issue, llm)

(***************************************************************************)
(* The sinks                                                               *)
(***************************************************************************)
\* d[k]: KeyError when the key is missing
HasKey(d, k) == k \in DOMAIN d

\* val[:2000] works on a string or a list, `for item in val` likewise;
\* None supports neither (TypeError)
Sliceable(val) == val.t \in {"str", "list"}
Iterable(val) == val.t \in {"str", "list"}

\* a dict key must be hashable: a list is not (TypeError)
Hashable(val) == val.t # "list"

\* The result of a sink call: how the call ended (kind, exc), whether the
\* external write or post was made and succeeded (wrote), how many times the
\* external call was attempted (attempts), and the exception the sink caught
\* and swallowed ("" when none).
SinkResult(kind, exc, wrote, attempts, swallowed) ==
    [kind |-> kind, exc |-> exc, wrote |-> wrote, attempts |-> attempts,
     swallowed |-> swallowed]

\* try ... except cls: the outcome r of the body seen through the handler
Handle(cls, r, attempts) ==
    IF r.kind = "raise"
    THEN IF Catches(cls, r.exc)
         THEN SinkResult("return", "", FALSE, attempts, r.exc)
         ELSE SinkResult("raise", r.exc, FALSE, attempts, "")
    ELSE SinkResult("return", "", TRUE, attempts, "")

\* the first exception raised while the arguments of notion.pages.create are
\* evaluated, in evaluation order, or "" when the payload is built
\* (gmail.py 231-313, backend.py 282-325; only the batch script adds the
\* original snippet as a last block)
notion_payload_error(module, issue, analysis) ==
    IF ~Iterable(dict_get(analysis, "action_items", List(<<>>))) THEN "TypeError"
    ELSE IF ~HasKey(issue, "subject") THEN "KeyError"
    ELSE IF ~Sliceable(issue["subject"]) THEN "TypeError"
    ELSE IF ~HasKey(analysis, "category") THEN "KeyError"
    ELSE IF ~HasKey(analysis, "priority") THEN "KeyError"
    ELSE IF ~HasKey(issue, "sender") THEN "KeyError"
    ELSE IF ~Sliceable(issue["sender"]) THEN "TypeError"
    ELSE IF ~HasKey(analysis, "summary") THEN "KeyError"
    ELSE IF ~Sliceable(analysis["summary"]) THEN "TypeError"
    ELSE IF ~HasKey(analysis, "root_cause") THEN "KeyError"
    ELSE IF ~Sliceable(analysis["root_cause"]) THEN "TypeError"
    ELSE IF module = "gmail" /\ ~HasKey(issue, "snippet") THEN "KeyError"
    ELSE IF module = "gmail" /\ ~Sliceable(issue["snippet"]) THEN "TypeError"
    ELSE ""

\* a handler that names the ticket store's own error only
add_to_notion_except_narrow == "APIResponseError"

\* the class named by the except clause of add_to_notion
\* (gmail.py 316, backend.py 327)
add_to_notion_except == "Exception"

\* add_to_notion(issue, analysis).  `client` is whether the ticket-store
\* client is configured; `write` is what pages.create does when it is
\* reached: "ok" or the exception it raises.
add_to_notion(module, client, issue, analysis, write) ==
    IF ~client
    THEN \* the batch script prints issue['subject'] before it returns
         IF module = "gmail" /\ ~HasKey(issue, "subject")
         THEN SinkResult("raise", "KeyError", FALSE, 0, "")
         ELSE SinkResult("return", "", FALSE, 0, "")
    ELSE LET e == notion_payload_error(module, issue, analysis)
         IN IF e # "" THEN Handle(add_to_notion_except, Raise(e), 0)
            ELSE IF write # "ok" THEN Handle(add_to_notion_except, Raise(write), 1)
            ELSE Handle(add_to_notion_except, Return(EmptyDict), 1)

category_emojis ==
    [c \in MAINTENANCE_CATEGORIES |->
        CASE c = "Electrical" -> "zap"
          [] c = "Plumbing" -> "potable_water"
          [] c = "IT Support" -> "computer"
          [] c = "HVAC" -> "thermometer"
          [] OTHER -> "clipboard"]

PRIORITIES == {"High", "Medium", "Low"}

priority_emojis ==
    [p \in PRIORITIES |->
        CASE p = "High" -> "red_circle"
          [] p = "Medium" -> "yellow_circle"
          [] OTHER -> "green_circle"]

\* a_dict.get(val, default) for a dict keyed by strings
emoji_get(table, val, default) ==
    IF val.t = "str" /\ val.v[1] \in DOMAIN table THEN table[val.v[1]] ELSE default

\* the first exception raised by the formatting of one issue's message, or ""
\* (gmail.py 361-434; backend.py 342-375 reads the same keys but not the
\* sender)
slack_format_error(module, issue, analysis) ==
    IF ~HasKey(analysis, "category") THEN "KeyError"
    ELSE IF ~Hashable(analysis["category"]) THEN "TypeError"
    ELSE IF ~HasKey(analysis, "priority") THEN "KeyError"
    ELSE IF ~Hashable(analysis["priority"]) THEN "TypeError"
    ELSE IF ~Iterable(dict_get(analysis, "action_items", List(<<>>))) THEN "TypeError"
    ELSE IF module = "gmail" /\ ~HasKey(issue, "sender") THEN "KeyError"
    ELSE IF ~HasKey(issue, "subject") THEN "KeyError"
    ELSE IF ~HasKey(analysis, "summary") THEN "KeyError"
    ELSE IF ~HasKey(analysis, "root_cause") THEN "KeyError"
    ELSE ""

\* format_maintenance_slack_message(issue, analysis): the pair
\* (fallback_text, blocks), of which the glyphs are kept, or the exception
format_maintenance_slack_message(issue, analysis) ==
    LET e == slack_format_error("gmail", issue, analysis)
    IN IF e # "" THEN Raise(e)
       ELSE Return([category_emoji |-> emoji_get(category_emojis, analysis["category"], "clipboard"),
                    priority_emoji |-> emoji_get(priority_emojis, analysis["priority"], "yellow_circle")])

\* the class named by the except clause of send_slack_message (gmail.py 339)
\* and of send_slack_notification (backend.py 382)
send_slack_except == "SlackApiError"

\* send_slack_message(text, blocks).  `post` is what chat_postMessage does:
\* "ok" or the exception it raises.
send_slack_message(client, post) ==
    IF ~client THEN SinkResult("return", "", FALSE, 0, "")
    ELSE IF post # "ok" THEN Handle(send_slack_except, Raise(post), 1)
    ELSE Handle(send_slack_except, Return(EmptyDict), 1)

\* send_slack_notification(issue, analysis): the message is built inside the
\* try block, then posted once
send_slack_notification(client, issue, analysis, post) ==
    IF ~client THEN SinkResult("return", "", FALSE, 0, "")
    ELSE LET e == slack_format_error("backend", issue, analysis)
         IN IF e # "" THEN Handle(send_slack_except, Raise(e), 0)
            ELSE IF post # "ok" THEN Handle(send_slack_except, Raise(post), 1)
            ELSE Handle(send_slack_except, Return(EmptyDict), 1)

\* the glyphs send_slack_notification picks before it builds the blocks
\* (backend.py 336-344), or the exception raised on the way
send_slack_notification_glyphs(issue, analysis) ==
    LET e == slack_format_error("backend", issue, analysis)
    IN IF e # "" THEN Raise(e)
       ELSE Return([category_emoji |-> emoji_get(category_emojis, analysis["category"], "clipboard"),
                    priority_emoji |-> emoji_get(priority_emojis, analysis["priority"], "yellow_circle")])

(***************************************************************************)
(* The texts the sinks submit, measured in characters.  A text is given by *)
(* its length: L holds the lengths of the issue's and the analysis's       *)
(* texts, the action items as a sequence of lengths, and the category and  *)
(* priority values the glyphs are looked up with.                          *)
(***************************************************************************)
\* the slice bound of the ticket payload's text fields
MaxFieldLen == 2000

\* len(s[:2000]) for a text s of n characters
truncate(n) == IF n > MaxFieldLen THEN MaxFieldLen ELSE n

RECURSIVE sum_bullets(_, _)
sum_bullets(items, bullet) ==
    IF Len(items) = 0 THEN 0
    ELSE bullet + Head(items) + sum_bullets(Tail(items), bullet)

\* len("\n".join([f"<bullet> {item}" for item in items])), the bullet prefix
\* being 2 characters in gmail.py and 4 in backend.py
action_items_text(module, items) ==
    IF Len(items) = 0 THEN 0
    ELSE sum_bullets(items, IF module = "gmail" THEN 2 ELSE 4) + (Len(items) - 1)

\* the text fields of the page handed to pages.create, each sliced to 2000;
\* only the batch script adds the original snippet
notion_texts(module, L) ==
    [f \in {"subject", "sender", "summary", "root_cause", "action_items_text"}
           \cup (IF module = "gmail" THEN {"snippet"} ELSE {}) |->
        CASE f = "subject" -> truncate(L.subject)
          [] f = "sender" -> truncate(L.sender)
          [] f = "summary" -> truncate(L.summary)
          [] f = "root_cause" -> truncate(L.root_cause)
          [] f = "action_items_text" -> truncate(action_items_text(module, L.action_items))
          [] OTHER -> truncate(L.snippet)]

\* the number of characters of a glyph literal in each source file
emoji_len(module, emoji) ==
    IF module = "gmail" THEN (IF emoji = "thermometer" THEN 2 ELSE 1)
    ELSE IF emoji = "thermometer" THEN 7
    ELSE IF emoji = "zap" THEN 3
    ELSE 4

\* the fallback text and the block texts of one issue's message: every
\* f-string is its literal part followed by the whole field, none is sliced
\* (gmail.py 368-434; backend.py 346-379 has no sender and date fields and a
\* shorter fallback text)
slack_texts(module, L) ==
    LET ce == emoji_len(module, emoji_get(category_emojis, L.category, "clipboard"))
        pe == emoji_len(module, emoji_get(priority_emojis, L.priority, "yellow_circle"))
        g == module = "gmail"
    IN [f \in {"header", "category", "priority", "subject", "summary", "root_cause",
               "action_items", "fallback_text"}
              \cup (IF g THEN {"from", "date"} ELSE {}) |->
           CASE f = "header" -> ce + 24
             [] f = "category" -> 12 + ce + 1 + L.category_len
             [] f = "priority" -> 12 + pe + 1 + L.priority_len
             [] f = "from" -> 8 + L.sender
             [] f = "date" -> 8 + 16
             [] f = "subject" -> 11 + L.subject
             [] f = "summary" -> (IF g THEN 13 ELSE 16) + L.summary
             [] f = "root_cause" -> (IF g THEN 16 ELSE 19) + L.root_cause
             [] f = "action_items" ->
                    (IF g THEN 18 ELSE 20) + action_items_text(module, L.action_items)
             [] OTHER ->
                    IF g THEN ce + 1 + L.category_len + 3 + L.priority_len + 11 + L.subject
                    ELSE ce + 1 + L.category_len + 3 + L.subject]

(***************************************************************************)
(* State                                                                   *)
(***************************************************************************)
VARIABLES
    cl_module,   \* which classifier was called: "none", "gmail", "backend"
    cl_issue,    \* the issue record handed to the classifier
    cl_llm,      \* the language model the classifier meets
    cl_out,      \* the outcome of the call
    app,         \* the driver that runs: "main" or an endpoint of the backend
    cfg,         \* the service handles set at start-up and the request's flag
    pc,          \* the driver's position
    issues,      \* the list returned by fetch_gmail_issues
    idx,         \* the loop's position in issues (1-based)
    processed,   \* issues_with_analysis / processed_issues
    bg_tasks,    \* the tasks added to background_tasks and not yet run
    events,      \* the steps completed so far, in order
    last_call,   \* the last sink call and its result
    notion_pages,\* the issues written to the ticket store
    slack_posts, \* the messages posted to the channel
    response,    \* what the run handed to its caller
    body,        \* the model an endpoint returned in its response
    failed_from, \* the step in which the run was aborted, "" when none
    fn_call,     \* which sink or report function was applied, "none" before
    fn_args,     \* the arguments it was applied to
    fn_out       \* the outcome of the call

cl_vars == <<cl_module, cl_issue, cl_llm, cl_out>>

fn_vars == <<fn_call, fn_args, fn_out>>

run_vars == <<app, cfg, pc, issues, idx, processed, bg_tasks, events, last_call,
              notion_pages, slack_posts, response, body, failed_from>>

vars == <<cl_module, cl_issue, cl_llm, cl_out, app, cfg, pc, issues, idx, processed,
          bg_tasks, events, last_call, notion_pages, slack_posts, response, body,
          failed_from, fn_call, fn_args, fn_out>>

NoCall == [fn |-> "none", i |-> 0, client |-> FALSE,
           result |-> SinkResult("return", "", FALSE, 0, "")]

NoResponse == [status |-> "none", code |-> 0, processed |-> 0]

\* the drivers' variables before a run starts
RunIdle ==
    /\ pc = "Idle"
    /\ issues = <<>>
    /\ idx = 0
    /\ processed = <<>>
    /\ bg_tasks = <<>>
    /\ events = <<>>
    /\ last_call = NoCall
    /\ notion_pages = <<>>
    /\ slack_posts = <<>>
    /\ response = NoResponse
    /\ body = EmptyDict
    /\ failed_from = ""

\* no sink or report function applied on its own
FnIdle ==
    /\ fn_call = "none"
    /\ fn_args = EmptyDict
    /\ fn_out = Pending

(***************************************************************************)
(* Inputs                                                                  *)
(***************************************************************************)
Range(s) == {s[i] : i \in 1..Len(s)}

\* the ids the mail source assigns, unique per batch
MessageIds == <<"m1", "m2", "m3", "m4", "m5", "m6", "m7", "m8">>

\* the record fetch_gmail_issues builds for message number i (all five keys
\* are always present; the snippet may be empty)
IssueRecord(i, snippet) ==
    [id |-> Str(MessageIds[i]),
     subject |-> Str("AC not cooling in room 204"),
     sender |-> Str("tenant@example.com"),
     date |-> Str("Mon, 3 Nov"),
     snippet |-> Str(snippet)]

Snippets == {"", "The AC stopped working"}

\* the values a completion's category member may carry: the five categories,
\* a string outside them, and a non-string
CategoryValues == {Str(c) : c \in MAINTENANCE_CATEGORIES} \cup {Str("Roofing"), Null}

\* the values a completion's action_items member may carry
ActionItemsValues == {List(<<"Check thermostat", "Call technician">>), Null}

MkVals(cat, items) ==
    [category |-> cat,
     summary |-> Str("Model summary"),
     priority |-> Str("High"),
     root_cause |-> Str("Model root cause"),
     action_items |-> items]

Texts == UNION {[1..n -> Tokens] : n \in 0..MaxLen}

\* the member values are varied only for the members the text holds
ValsFor(text) ==
    {MkVals(c, a) :
        c \in (IF "category" \in Range(text) THEN CategoryValues ELSE {Str("Electrical")}),
        a \in (IF "action_items" \in Range(text)
               THEN ActionItemsValues ELSE {List(<<"Check thermostat", "Call technician">>)})}

\* what a failing model call raises: invoke itself fails, or the response's
\* content is not a string and .strip() fails
LlmErrors == {"APIConnectionError", "AttributeError"}

(***************************************************************************)
(* The classifier as a function of its inputs                              *)
(***************************************************************************)
InitClassify ==
    /\ cl_module = "none"
    /\ cl_issue \in {IssueRecord(1, s) : s \in Snippets}
    /\ \/ cl_llm = LlmAbsent
       \/ \E e \in LlmErrors : cl_llm = LlmRaises(e)
       \/ \E text \in Texts : \E v \in ValsFor(text) : cl_llm = LlmCompletes(text, v)
    /\ cl_out = Pending
    /\ app = "none"
    /\ cfg = [notion |-> FALSE, slack |-> FALSE, llm |-> FALSE, gmail |-> FALSE,
              send_notifications |-> FALSE]
    /\ RunIdle
    /\ FnIdle

GmailClassify ==
    /\ cl_module = "none"
    /\ cl_module' = "gmail"
    /\ cl_out' = gmail_classify_maintenance_issue(cl_issue, cl_llm)
    /\ UNCHANGED <<cl_issue, cl_llm, fn_vars, run_vars>>

BackendClassify ==
    /\ cl_module = "none"
    /\ cl_module' = "backend"
    /\ cl_out' = backend_classify_maintenance_issue(cl_issue, cl_llm)
    /\ UNCHANGED <<cl_issue, cl_llm, fn_vars, run_vars>>

NextClassify == GmailClassify \/ BackendClassify

SpecClassify == InitClassify /\ [][NextClassify]_vars

(***************************************************************************)
(* The sinks' texts as functions of the lengths of their inputs            *)
(***************************************************************************)
\* how far past the slice bound an input text may reach
MaxExcess == 1

\* the lengths an input text takes: empty, exactly the bound, and past it
FieldLens == {0} \cup {MaxFieldLen + k : k \in 0..MaxExcess}

ItemLens == UNION {[1..n -> FieldLens] : n \in 0..2}

InitTexts ==
    /\ fn_call = "none"
    /\ \E su \in FieldLens, se \in FieldLens, sn \in FieldLens, sm \in FieldLens,
          rc \in FieldLens, ai \in ItemLens :
          fn_args = [subject |-> su, sender |-> se, snippet |-> sn, summary |-> sm,
                     root_cause |-> rc, action_items |-> ai,
                     category |-> Str("HVAC"), category_len |-> 4,
                     priority |-> Str("High"), priority_len |-> 4]
    /\ fn_out = Pending
    /\ cl_module = "none"
    /\ cl_issue = IssueRecord(1, "")
    /\ cl_llm = LlmAbsent
    /\ cl_out = Pending
    /\ app = "none"
    /\ cfg = [notion |-> FALSE, slack |-> FALSE, llm |-> FALSE, gmail |-> FALSE,
              send_notifications |-> FALSE]
    /\ RunIdle

GmailNotionTexts ==
    /\ fn_call = "none"
    /\ fn_call' = "gmail.add_to_notion"
    /\ fn_out' = Return(notion_texts("gmail", fn_args))
    /\ UNCHANGED <<fn_args, cl_vars, run_vars>>

BackendNotionTexts ==
    /\ fn_call = "none"
    /\ fn_call' = "backend.add_to_notion"
    /\ fn_out' = Return(notion_texts("backend", fn_args))
    /\ UNCHANGED <<fn_args, cl_vars, run_vars>>

GmailSlackTexts ==
    /\ fn_call = "none"
    /\ fn_call' = "gmail.format_maintenance_slack_message"
    /\ fn_out' = Return(slack_texts("gmail", fn_args))
    /\ UNCHANGED <<fn_args, cl_vars, run_vars>>

BackendSlackTexts ==
    /\ fn_call = "none"
    /\ fn_call' = "backend.send_slack_notification"
    /\ fn_out' = Return(slack_texts("backend", fn_args))
    /\ UNCHANGED <<fn_args, cl_vars, run_vars>>

NextTexts == GmailNotionTexts \/ BackendNotionTexts \/ GmailSlackTexts \/ BackendSlackTexts

SpecTexts == InitTexts /\ [][NextTexts]_vars

(***************************************************************************)
(* The formatter as a function of the analysis it is given                 *)
(***************************************************************************)
\* the values an analysis may carry as its category and as its priority: the
\* mapped strings, a string outside them, null, and a JSON list
GlyphCategoryValues == CategoryValues \cup {List(<<"HVAC">>)}

GlyphPriorityValues == {Str(p) : p \in PRIORITIES} \cup {Str("Urgent"), Null, List(<<"High">>)}

InitGlyphs ==
    /\ fn_call = "none"
    /\ \E c \in GlyphCategoryValues, p \in GlyphPriorityValues, a \in ActionItemsValues :
          fn_args = [issue |-> IssueRecord(1, "The AC stopped working"),
                     analysis |-> [MkVals(c, a) EXCEPT !.priority = p]]
    /\ fn_out = Pending
    /\ cl_module = "none"
    /\ cl_issue = IssueRecord(1, "")
    /\ cl_llm = LlmAbsent
    /\ cl_out = Pending
    /\ app = "none"
    /\ cfg = [notion |-> FALSE, slack |-> FALSE, llm |-> FALSE, gmail |-> FALSE,
              send_notifications |-> FALSE]
    /\ RunIdle

GmailFormatGlyphs ==
    /\ fn_call = "none"
    /\ fn_call' = "gmail.format_maintenance_slack_message"
    /\ fn_out' = format_maintenance_slack_message(fn_args.issue, fn_args.analysis)
    /\ UNCHANGED <<fn_args, cl_vars, run_vars>>

BackendNotificationGlyphs ==
    /\ fn_call = "none"
    /\ fn_call' = "backend.send_slack_notification"
    /\ fn_out' = send_slack_notification_glyphs(fn_args.issue, fn_args.analysis)
    /\ UNCHANGED <<fn_args, cl_vars, run_vars>>

NextGlyphs == GmailFormatGlyphs \/ BackendNotificationGlyphs

SpecGlyphs == InitGlyphs /\ [][NextGlyphs]_vars

(***************************************************************************)
(* The drivers: inputs                                                     *)
(***************************************************************************)
\* issue number i of a fetched batch: the first has a snippet, the others none
FetchedIssue(i) == IssueRecord(i, IF i = 1 THEN "The AC stopped working" ELSE "")

FetchedBatch(n) == [i \in 1..n |-> FetchedIssue(i)]

AllFields == <<"{", "category", "summary", "priority", "root_cause", "action_items", "}">>

\* what the model does in one call of a run, when its handle is configured
DriverLlms ==
    {LlmRaises("APIConnectionError"),
     LlmCompletes(<<"x">>, MkVals(Str("HVAC"), List(<<"Check thermostat">>))),
     LlmCompletes(<<"{", "category", "}">>, MkVals(Str("HVAC"), List(<<"Check thermostat">>))),
     LlmCompletes(AllFields, MkVals(Str("Plumbing"), List(<<"Check thermostat">>))),
     LlmCompletes(AllFields, MkVals(Str("Electrical"), Null))}

LlmChoices(handle) == IF handle THEN DriverLlms ELSE {LlmAbsent}

\* what pages.create does when it is reached
NotionWrites == {"ok", "APIResponseError"}

\* what chat_postMessage does when it is reached: it succeeds, the API
\* answers with an error (SlackApiError), or the request itself fails
SlackPosts == {"ok", "SlackApiError", "URLError"}

\* a dict held as a value of another dict
Dict(d) == [t |-> "dict", v |-> <<>>, d |-> d]

Event(e, i) == [e |-> e, i |-> i]

Call(fn, i, client, result) == [fn |-> fn, i |-> i, client |-> client, result |-> result]

InitRun ==
    /\ cl_module = "none"
    /\ cl_issue = IssueRecord(1, "")
    /\ cl_llm = LlmAbsent
    /\ cl_out = Pending
    /\ app \in {"main", "process_emails", "get_emails", "classify_email",
                 "get_dashboard_stats"}
    /\ \E n \in BOOLEAN, s \in BOOLEAN, l \in BOOLEAN, g \in BOOLEAN, f \in BOOLEAN :
          \* the batch script does not reach main() without a mail service
          \* and has no request flag
          /\ (app = "main" => g /\ f)
          \* the other endpoints read neither sink handle and take no flag
          /\ (app \notin {"main", "process_emails"} => ~n /\ ~s /\ ~f)
          /\ cfg = [notion |-> n, slack |-> s, llm |-> l, gmail |-> g,
                    send_notifications |-> f]
    /\ RunIdle
    /\ FnIdle

(***************************************************************************)
(* The counting loops and the daily report (gmail.py 442-537)              *)
(***************************************************************************)
\* a dict built by a counting loop: its keys in insertion order and the
\* count under each key
Counter(order, n) == [order |-> order, n |-> n]

\* the dict key a value makes: a string itself, None for null
key_of(val) == IF val.t = "str" THEN val.v[1] ELSE "None"

\* counts[k] = counts.get(k, 0) + inc
counter_add(c, k, inc) ==
    Counter(IF k \in DOMAIN c.n THEN c.order ELSE Append(c.order, k),
            dict_set(c.n, k, dict_get(c.n, k, 0) + inc))

\* a loop that stores 1 under the key whatever the count was
count_category_once(c, cat) ==
    Counter(IF key_of(cat) \in DOMAIN c.n THEN c.order ELSE Append(c.order, key_of(cat)),
            dict_set(c.n, key_of(cat), 1))

\* category_counts[category] = category_counts.get(category, 0) + 1
\* (gmail.py 456, backend.py 517)
count_category(c, cat) == counter_add(c, key_of(cat), 1)

\* a loop that counts the priority as it counts the category
gmail_count_priority_incremented(c, pri) == counter_add(c, key_of(pri), 1)

\* priority_counts[priority] = priority_counts.get(priority, 0)  (gmail.py 457):
\* the key is stored with the count it had
gmail_count_priority(c, pri) == counter_add(c, key_of(pri), 0)

\* priority_counts[pri] = priority_counts.get(pri, 0) + 1  (backend.py 518)
backend_count_priority(c, pri) == counter_add(c, key_of(pri), 1)

\* category_counts = {} and priority_counts = {"High": 0, "Medium": 0, "Low": 0}
InitialCounts ==
    [category_counts |-> Counter(<<>>, [k \in {} |-> 0]),
     priority_counts |-> Counter(<<"High", "Medium", "Low">>, [k \in PRIORITIES |-> 0])]

RECURSIVE count_loop(_, _, _)
\* the loop over the analyses, from the first to the last
count_loop(module, analyses, counts) ==
    IF analyses = <<>> THEN counts
    ELSE LET a == Head(analyses)
         IN count_loop(module, Tail(analyses),
                [category_counts |-> count_category(counts.category_counts, a["category"]),
                 priority_counts |->
                    IF module = "gmail"
                    THEN gmail_count_priority(counts.priority_counts, a["priority"])
                    ELSE backend_count_priority(counts.priority_counts, a["priority"])])

\* the first exception of a counting loop: each analysis is read for its
\* category, then its priority, then both are used as dict keys
count_loop_error(analyses) ==
    IF \E k \in 1..Len(analyses) :
          \/ ~HasKey(analyses[k], "category")
          \/ ~HasKey(analyses[k], "priority")
    THEN "KeyError"
    ELSE IF \E k \in 1..Len(analyses) :
               \/ ~Hashable(analyses[k]["category"])
               \/ ~Hashable(analyses[k]["priority"])
    THEN "TypeError"
    ELSE ""

\* the keys left in insertion order
unsorted_by_count(order, n) == order

\* a key put into a list sorted by count, largest first, behind the keys
\* that count as much
insert_by_count(sorted, k, n) ==
    LET before == Cardinality({i \in 1..Len(sorted) : n[sorted[i]] >= n[k]})
    IN SubSeq(sorted, 1, before) \o <<k>> \o SubSeq(sorted, before + 1, Len(sorted))

RECURSIVE sorted_by_count(_, _)
\* sorted(category_counts.items(), key=lambda x: x[1], reverse=True): the
\* sort is stable, keys of equal count stay in insertion order
sorted_by_count(order, n) ==
    IF order = <<>> THEN <<>>
    ELSE insert_by_count(sorted_by_count(SubSeq(order, 1, Len(order) - 1), n),
                         order[Len(order)], n)

\* the "By Category" lines of the header and of the templated report
category_lines(c) ==
    LET keys == sorted_by_count(c.order, c.n)
    IN [i \in 1..Len(keys) |-> [category |-> keys[i], count |-> c.n[keys[i]]]]

\* the High, Medium and Low counts a text shows
priority_line(c) == [p \in PRIORITIES |-> c.n[p]]

\* issues_with_analysis[:5]
first_five(items) == SubSeq(items, 1, IF Len(items) < 5 THEN Len(items) ELSE 5)

\* the "Top Issues" lines of the templated report (lines 531-535), numbered
\* from 1; the subject is cut to its first 60 characters
top_issues(items) ==
    LET top == first_five(items)
    IN [i \in 1..Len(top) |->
           [idx |-> i, category |-> top[i].analysis["category"],
            priority |-> top[i].analysis["priority"], id |-> top[i].issue["id"]]]

\* the first exception of the prompt's issue list (lines 466-470, inside try)
summary_prompt_error(items) ==
    IF \E k \in 1..Len(items) :
          ~HasKey(items[k].issue, "subject") \/ ~HasKey(items[k].issue, "sender")
    THEN "KeyError"
    ELSE ""

\* the first exception of the templated report's issue lines (outside try)
top_issues_error(items) ==
    LET top == first_five(items)
    IN IF \E k \in 1..Len(top) : ~HasKey(top[k].issue, "subject") THEN "KeyError"
       ELSE IF \E k \in 1..Len(top) : ~Sliceable(top[k].issue["subject"]) THEN "TypeError"
       ELSE ""

\* what generate_daily_summary_with_ai returns: which text it is, how often
\* the model was invoked, and the numbers the text shows
Summary(kind, llm_calls, total, counts, prompt, lines, priorities, top) ==
    [kind |-> kind, llm_calls |-> llm_calls, total |-> total, counts |-> counts,
     prompt |-> prompt, category_lines |-> lines, priority_line |-> priorities,
     top_issues |-> top]

\* the templated report of lines 513-537
fallback_summary(items, counts, llm_calls) ==
    IF top_issues_error(items) # "" THEN Raise(top_issues_error(items))
    ELSE Return(Summary("template", llm_calls, Len(items), counts, <<>>,
                        category_lines(counts.category_counts),
                        priority_line(counts.priority_counts), top_issues(items)))

\* generate_daily_summary_with_ai(issues_with_analysis); llm is what the
\* model does when invoked, LlmAbsent when cerebras_llm is None
generate_daily_summary_with_ai(items, llm) ==
    IF items = <<>>
    THEN Return(Summary("no_issues", 0, 0, InitialCounts, <<>>, <<>>,
                        priority_line(InitialCounts.priority_counts), <<>>))
    ELSE LET analyses == [k \in 1..Len(items) |-> items[k].analysis]
             counts == count_loop("gmail", analyses, InitialCounts)
         IN IF count_loop_error(analyses) # "" THEN Raise(count_loop_error(analyses))
            ELSE IF llm.kind = "absent" THEN fallback_summary(items, counts, 0)
            ELSE IF summary_prompt_error(items) # "" THEN fallback_summary(items, counts, 0)
            ELSE IF llm.kind = "raises" THEN fallback_summary(items, counts, 1)
            ELSE Return(Summary("ai", 1, Len(items), counts,
                                <<[total |-> Len(items),
                                   category_counts |-> counts.category_counts.n,
                                   priority_counts |-> counts.priority_counts.n]>>,
                                category_lines(counts.category_counts),
                                priority_line(counts.priority_counts), <<>>))

(***************************************************************************)
(* main() of the batch script (gmail.py 543-591)                           *)
(***************************************************************************)
\* line 548: fetch_gmail_issues() has no try block; an API error leaves main
MainFetch ==
    /\ app = "main" /\ pc = "Idle"
    /\ \/ /\ pc' = "Failed"
          /\ failed_from' = "Fetching"
          /\ UNCHANGED <<issues, idx, events, response>>
       \/ \E n \in 0..MaxIssues :
             /\ issues' = FetchedBatch(n)
             /\ events' = Append(events, Event("fetch", 0))
             /\ idx' = IF n = 0 THEN 0 ELSE 1
             \* lines 550-552: an empty batch ends the run
             /\ pc' = IF n = 0 THEN "Done" ELSE "Classifying"
             /\ response' = IF n = 0 THEN [NoResponse EXCEPT !.status = "no_emails"]
                            ELSE response
             /\ UNCHANGED failed_from
    /\ UNCHANGED <<cl_vars, fn_vars, app, cfg, body, processed, bg_tasks, last_call, notion_pages,
                   slack_posts>>

\* an insertion at the front of the list
main_append_front(list, issue, analysis) ==
    <<[issue |-> issue, analysis |-> analysis]>> \o list

\* lines 569-572
main_append(list, issue, analysis) ==
    Append(list, [issue |-> issue, analysis |-> analysis])

\* line 566 reads analysis['category'] and analysis['priority']
main_print_error(analysis) ==
    IF HasKey(analysis, "category") /\ HasKey(analysis, "priority") THEN "" ELSE "KeyError"

\* lines 559-572
MainClassify ==
    /\ app = "main" /\ pc = "Classifying"
    /\ \E llm \in LlmChoices(cfg.llm) :
          LET r == gmail_classify_maintenance_issue(issues[idx], llm)
          IN IF r.kind = "raise" \/ main_print_error(r.val) # ""
             THEN /\ pc' = "Failed"
                  /\ failed_from' = "Classifying"
                  /\ UNCHANGED <<processed, events>>
             ELSE /\ processed' = main_append(processed, issues[idx], r.val)
                  /\ events' = Append(events, Event("classify", idx))
                  /\ pc' = "Notion"
                  /\ UNCHANGED failed_from
    /\ UNCHANGED <<cl_vars, fn_vars, app, cfg, body, issues, idx, bg_tasks, last_call, notion_pages,
                   slack_posts, response>>

\* line 575
MainAddToNotion ==
    /\ app = "main" /\ pc = "Notion"
    /\ \E w \in NotionWrites :
          LET r == add_to_notion("gmail", cfg.notion, issues[idx], processed[idx].analysis, w)
          IN /\ last_call' = Call("add_to_notion", idx, cfg.notion, r)
             /\ notion_pages' = IF r.wrote THEN Append(notion_pages, idx) ELSE notion_pages
             /\ IF r.kind = "raise"
                THEN /\ pc' = "Failed"
                     /\ failed_from' = "Sinking"
                     /\ UNCHANGED events
                ELSE /\ pc' = "Slack"
                     /\ events' = Append(events, Event("ticket", idx))
                     /\ UNCHANGED failed_from
    /\ UNCHANGED <<cl_vars, fn_vars, app, cfg, body, issues, idx, processed, bg_tasks, slack_posts,
                   response>>

\* the loop's step after the sinks of issue i (lines 559, 581)
main_after_sinks(i, n) == IF i < n THEN "Classifying" ELSE "Aggregating"

\* lines 578-579: the message is formatted outside any try block, then sent
MainSendSlack ==
    /\ app = "main" /\ pc = "Slack"
    /\ \E p \in SlackPosts :
          LET m == format_maintenance_slack_message(issues[idx], processed[idx].analysis)
              r == send_slack_message(cfg.slack, p)
          IN IF m.kind = "raise"
             THEN /\ pc' = "Failed"
                  /\ failed_from' = "Formatting"
                  /\ UNCHANGED <<last_call, slack_posts, events, idx>>
             ELSE /\ last_call' = Call("send_slack_message", idx, cfg.slack, r)
                  /\ slack_posts' = IF r.wrote THEN Append(slack_posts, idx) ELSE slack_posts
                  /\ IF r.kind = "raise"
                     THEN /\ pc' = "Failed"
                          /\ failed_from' = "Notifying"
                          /\ UNCHANGED <<events, idx>>
                     ELSE /\ events' = Append(events, Event("notify", idx))
                          /\ pc' = main_after_sinks(idx, Len(issues))
                          /\ idx' = IF idx < Len(issues) THEN idx + 1 ELSE idx
                          /\ UNCHANGED failed_from
    /\ UNCHANGED <<cl_vars, fn_vars, app, cfg, body, issues, processed, bg_tasks, notion_pages, response>>

\* what the model does when the report invokes it
SummaryLlms(handle) ==
    IF handle THEN {LlmRaises("APIConnectionError"), LlmCompletes(<<"x">>, EmptyDict)}
    ELSE {LlmAbsent}

\* lines 582-591
MainSummary ==
    /\ app = "main" /\ pc = "Aggregating"
    /\ IF cfg.slack /\ processed # <<>>
       THEN \E p \in SlackPosts, llm \in SummaryLlms(cfg.llm) :
               LET daily_summary == generate_daily_summary_with_ai(processed, llm)
                   r == send_slack_message(cfg.slack, p)
               IN IF daily_summary.kind = "raise"
                  THEN /\ pc' = "Failed"
                       /\ failed_from' = "Aggregating"
                       /\ UNCHANGED <<last_call, slack_posts, events, response, body>>
                  ELSE /\ last_call' = Call("send_slack_message", 0, cfg.slack, r)
                       /\ slack_posts' = IF r.wrote THEN Append(slack_posts, 0) ELSE slack_posts
                       /\ body' = daily_summary.val
                       /\ IF r.kind = "raise"
                          THEN /\ pc' = "Failed"
                               /\ failed_from' = "Notifying"
                               /\ events' = Append(events, Event("summary", 0))
                               /\ UNCHANGED response
                          ELSE /\ pc' = "Done"
                               /\ events' = Append(events, Event("summary", 0))
                               /\ response' = [status |-> "complete", code |-> 0,
                                               processed |-> Len(processed)]
                               /\ UNCHANGED failed_from
       ELSE /\ pc' = "Done"
            /\ response' = [status |-> "complete", code |-> 0, processed |-> Len(processed)]
            /\ UNCHANGED <<last_call, slack_posts, events, failed_from, body>>
    /\ UNCHANGED <<cl_vars, fn_vars, app, cfg, issues, idx, processed, bg_tasks, notion_pages>>


(***************************************************************************)
(* The API backend: the fetch, the endpoints' handlers and the response    *)
(* models (backend.py)                                                     *)
(***************************************************************************)
\* raise HTTPException(status_code=code)
HTTPException(code) ==
    [kind |-> "raise", exc |-> "HTTPException", val |-> [status_code |-> code]]

\* what the Gmail API does once it is called: it fails, or it lists n messages
FetchApis == {[ok |-> FALSE, n |-> 0]} \cup {[ok |-> TRUE, n |-> k] : k \in 0..MaxIssues}

\* fetch_gmail_issues (backend.py 173-207): without a mail service it raises
\* HTTPException(503) before the try block; an error of the API, at any
\* message, is turned into HTTPException(500) and no list is returned
backend_fetch_gmail_issues(service, api) ==
    IF ~service THEN HTTPException(503)
    ELSE IF ~api.ok THEN HTTPException(500)
    ELSE Return(FetchedBatch(api.n))

\* an endpoint's handlers seen from its caller: classify_email alone has
\* `except HTTPException: raise` (lines 447-448); every endpoint ends with
\* `except Exception` -> HTTPException(500), and HTTPException is an Exception
endpoint_except(reraise, r) ==
    IF r.kind # "raise" THEN r
    ELSE IF reraise /\ Catches("HTTPException", r.exc) THEN r
    ELSE HTTPException(500)

\* the response FastAPI sends for a raised HTTPException
error_response(r) == [status |-> "error", code |-> r.val.status_code, processed |-> 0]

IssueKeys == {"id", "subject", "sender", "date", "snippet"}

\* IssueAnalysis(**analysis), lines 48-53: five required fields, four strings
\* and a list of strings
IssueAnalysis_error(analysis) ==
    IF \E f \in AnalysisFields :
          \/ ~HasKey(analysis, f)
          \/ analysis[f].t # (IF f = "action_items" THEN "list" ELSE "str")
    THEN "ValidationError"
    ELSE ""

\* EmailIssue(**issue), lines 55-61: five required strings and an optional
\* analysis
EmailIssue_error(issue) ==
    IF \E k \in IssueKeys : ~HasKey(issue, k) \/ issue[k].t # "str"
    THEN "ValidationError"
    ELSE IF HasKey(issue, "analysis") THEN IssueAnalysis_error(issue["analysis"].d)
    ELSE ""

\* what an endpoint did: its outcome, the fetched list as it left it, the
\* issues it classified, the steps it completed and where it failed
Handled(out, list, classified, steps, step) ==
    [out |-> out, issues |-> list, classified |-> classified, steps |-> steps,
     failed_from |-> step]

\* an attachment that also replaces the snippet by the analysis's summary
attach_analysis_over_snippet(issue, analysis) ==
    dict_set(dict_set(issue, "analysis", Dict(analysis)), "snippet",
             dict_get(analysis, "summary", Null))

\* issue["analysis"] = analysis (lines 440, 475, 506)
attach_analysis(issue, analysis) == dict_set(issue, "analysis", Dict(analysis))

\* get_emails (lines 422-429)
get_emails(service, api) ==
    LET f == backend_fetch_gmail_issues(service, api)
    IN IF f.kind = "raise"
       THEN Handled(endpoint_except(FALSE, f), <<>>, <<>>, <<>>, "Fetching")
       ELSE IF \E i \in 1..Len(f.val) : EmailIssue_error(f.val[i]) # ""
       THEN Handled(endpoint_except(FALSE, Raise("ValidationError")), f.val, <<>>,
                    <<Event("fetch", 0)>>, "Validating")
       ELSE Handled(Return(f.val), f.val, <<>>, <<Event("fetch", 0)>>, "")

\* the ids a request may name: the id of message k, or an id no message has
email_id(k) == IF k = 0 THEN Str("m0") ELSE FetchedIssue(k)["id"]

\* classify_email (lines 431-450)
classify_email(service, api, id, llm) ==
    LET f == backend_fetch_gmail_issues(service, api)
    IN IF f.kind = "raise"
       THEN Handled(endpoint_except(TRUE, f), <<>>, <<>>, <<>>, "Fetching")
       ELSE LET found == {i \in 1..Len(f.val) : f.val[i]["id"] = id}
            IN IF found = {}
               THEN Handled(endpoint_except(TRUE, HTTPException(404)), f.val, <<>>,
                            <<Event("fetch", 0)>>, "Finding")
               ELSE LET k == CHOOSE i \in found : \A j \in found : i <= j
                        r == backend_classify_maintenance_issue(f.val[k], llm)
                        issue == attach_analysis(f.val[k], r.val)
                        list == [f.val EXCEPT ![k] = issue]
                        item == [issue |-> issue, analysis |-> r.val]
                        steps == <<Event("fetch", 0), Event("classify", k)>>
                    IN IF r.kind = "raise"
                       THEN Handled(endpoint_except(TRUE, r), f.val, <<>>,
                                    <<Event("fetch", 0)>>, "Classifying")
                       ELSE IF EmailIssue_error(issue) # ""
                       THEN Handled(endpoint_except(TRUE, Raise(EmailIssue_error(issue))),
                                    list, <<item>>, steps, "Validating")
                       ELSE Handled(Return(issue), list, <<item>>, steps, "")

\* a quotient cut off instead of rounded
round_div_truncating(a, b) == a \div b

\* a / b rounded to the nearest integer, a half to the even neighbour, as
\* round() does
round_div(a, b) ==
    LET q == a \div b
        r == a % b
    IN IF 2 * r > b \/ (2 * r = b /\ q % 2 = 1) THEN q + 1 ELSE q

\* round((count / total) * 100, 1) if total > 0 else 0, in tenths of a
\* percent (line 526)
percentage(count, total) == IF total > 0 THEN round_div(count * 1000, total) ELSE 0

\* lines 510-536: the statistics over the classified issues and the
\* response model built from them
dashboard_stats(classified_issues) ==
    LET all == [k \in 1..Len(classified_issues) |-> classified_issues[k]["analysis"].d]
        \* line 514: an empty analysis is skipped
        analyses == SelectSeq(all, LAMBDA a : DOMAIN a # {})
        counts == count_loop("backend", analyses, InitialCounts)
        total == Len(classified_issues)
        cats == counts.category_counts
        recent == SubSeq(classified_issues, 1, IF total < 5 THEN total ELSE 5)
    IN IF count_loop_error(analyses) # "" THEN Raise(count_loop_error(analyses))
       \* CategoryStats.category and the keys of by_priority are strings
       ELSE IF "None" \in DOMAIN cats.n \cup DOMAIN counts.priority_counts.n
       THEN Raise("ValidationError")
       ELSE IF \E k \in 1..Len(recent) : EmailIssue_error(recent[k]) # ""
       THEN Raise("ValidationError")
       ELSE Return([total_issues |-> total,
                    by_category |->
                        [i \in 1..Len(cats.order) |->
                            [category |-> cats.order[i],
                             count |-> cats.n[cats.order[i]],
                             percentage |-> percentage(cats.n[cats.order[i]], total)]],
                    by_priority |-> counts.priority_counts.n,
                    recent_issues |-> recent])

\* get_dashboard_stats (lines 496-539); llms[i] is what the model does when
\* issue i is classified
get_dashboard_stats(service, api, llms) ==
    LET f == backend_fetch_gmail_issues(service, api)
    IN IF f.kind = "raise"
       THEN Handled(endpoint_except(FALSE, f), <<>>, <<>>, <<>>, "Fetching")
       ELSE LET n == Len(f.val)
                rs == [i \in 1..n |-> backend_classify_maintenance_issue(f.val[i], llms[i])]
                list == [i \in 1..n |-> attach_analysis(f.val[i], rs[i].val)]
                items == [i \in 1..n |-> [issue |-> list[i], analysis |-> rs[i].val]]
                steps == <<Event("fetch", 0)>> \o [i \in 1..n |-> Event("classify", i)]
                st == dashboard_stats(list)
            IN IF \E i \in 1..n : rs[i].kind = "raise"
               THEN Handled(HTTPException(500), f.val, <<>>, <<Event("fetch", 0)>>,
                            "Classifying")
               ELSE IF st.kind = "raise"
               THEN Handled(endpoint_except(FALSE, st), list, items, steps,
                            IF st.exc = "ValidationError" THEN "Validating"
                            ELSE "Aggregating")
               ELSE Handled(st, list, items, steps, "")

\* an endpoint that is one handler: the state it leaves
Respond(h) ==
    /\ issues' = h.issues
    /\ processed' = h.classified
    /\ events' = events \o h.steps
    /\ failed_from' = h.failed_from
    /\ IF h.out.kind = "raise"
       THEN /\ pc' = "Failed"
            /\ response' = error_response(h.out)
            /\ body' = body
       ELSE /\ pc' = "Done"
            /\ response' = [status |-> "success", code |-> 200,
                            processed |-> Len(h.classified)]
            /\ body' = h.out.val
    /\ UNCHANGED <<cl_vars, fn_vars, app, cfg, idx, bg_tasks, last_call, notion_pages,
                   slack_posts>>

GetEmails ==
    /\ app = "get_emails" /\ pc = "Idle"
    /\ \E api \in FetchApis : Respond(get_emails(cfg.gmail, api))

ClassifyEmail ==
    /\ app = "classify_email" /\ pc = "Idle"
    /\ \E api \in FetchApis, k \in 0..MaxIssues, llm \in LlmChoices(cfg.llm) :
          Respond(classify_email(cfg.gmail, api, email_id(k), llm))

GetDashboardStats ==
    /\ app = "get_dashboard_stats" /\ pc = "Idle"
    /\ \E api \in FetchApis : \E llms \in [1..api.n -> LlmChoices(cfg.llm)] :
          Respond(get_dashboard_stats(cfg.gmail, api, llms))

(***************************************************************************)
(* process_emails of the API backend (backend.py 452-494) and the          *)
(* background tasks it schedules                                           *)
(***************************************************************************)
\* the except clause of line 493 turns every exception of the body, the
\* HTTPException of fetch_gmail_issues included, into a status 500
pe_error_response == [status |-> "error", code |-> 500, processed |-> 0]

\* lines 459-468: the fetch inside process_emails, whose handler re-raises
\* nothing
PeFetch ==
    /\ app = "process_emails" /\ pc = "Idle"
    /\ \E api \in FetchApis :
          LET r == endpoint_except(FALSE, backend_fetch_gmail_issues(cfg.gmail, api))
          IN IF r.kind = "raise"
             THEN /\ pc' = "Failed"
                  /\ failed_from' = "Fetching"
                  /\ response' = error_response(r)
                  /\ UNCHANGED <<issues, idx, events>>
             ELSE /\ issues' = r.val
                  /\ events' = Append(events, Event("fetch", 0))
                  /\ idx' = IF Len(r.val) = 0 THEN 0 ELSE 1
                  \* lines 462-468: an empty batch is answered at once
                  /\ pc' = IF Len(r.val) = 0 THEN "Done" ELSE "Classifying"
                  /\ response' = IF Len(r.val) = 0
                                 THEN [status |-> "success", code |-> 200, processed |-> 0]
                                 ELSE response
                  /\ UNCHANGED failed_from
    /\ UNCHANGED <<cl_vars, fn_vars, app, cfg, body, processed, bg_tasks, last_call,
                   notion_pages, slack_posts>>

\* line 476: the issue dict itself, which now holds the analysis, is appended
pe_append(list, issue, analysis) ==
    Append(list, [issue |-> issue, analysis |-> analysis])

Task(fn, i) == [fn |-> fn, i |-> i]

\* a scheduling whose notification flag gates the ticket write as well
pe_schedule_gate_both(tasks, i, notion, notify) ==
    LET t1 == IF notion /\ notify THEN Append(tasks, Task("add_to_notion", i)) ELSE tasks
    IN IF notify THEN Append(t1, Task("send_slack_notification", i)) ELSE t1

\* a scheduling that adds the notification before the ticket
pe_schedule_notify_first(tasks, i, notion, notify) ==
    LET t1 == IF notify THEN Append(tasks, Task("send_slack_notification", i)) ELSE tasks
    IN IF notion THEN Append(t1, Task("add_to_notion", i)) ELSE t1

\* lines 478-484: the sinks are not called, they are added to the request's
\* background tasks.  A task holds references to the issue and its analysis;
\* the model keeps the issue's index.
pe_schedule(tasks, i, notion, notify) ==
    LET t1 == IF notion THEN Append(tasks, Task("add_to_notion", i)) ELSE tasks
    IN IF notify THEN Append(t1, Task("send_slack_notification", i)) ELSE t1

\* lines 472-484, one iteration
PeClassify ==
    /\ app = "process_emails" /\ pc = "Classifying"
    /\ \E llm \in LlmChoices(cfg.llm) :
          LET r == backend_classify_maintenance_issue(issues[idx], llm)
              issue == attach_analysis(issues[idx], r.val)
          IN IF r.kind = "raise"
             THEN /\ pc' = "Failed"
                  /\ failed_from' = "Classifying"
                  /\ response' = pe_error_response
                  /\ UNCHANGED <<issues, processed, bg_tasks, events, idx>>
             ELSE /\ issues' = [issues EXCEPT ![idx] = issue]
                  /\ processed' = pe_append(processed, issue, r.val)
                  /\ bg_tasks' = pe_schedule(bg_tasks, idx, cfg.notion,
                                             cfg.send_notifications /\ cfg.slack)
                  /\ events' = Append(events, Event("classify", idx))
                  /\ pc' = IF idx < Len(issues) THEN "Classifying" ELSE "Returning"
                  /\ idx' = IF idx < Len(issues) THEN idx + 1 ELSE idx
                  /\ UNCHANGED <<failed_from, response>>
    /\ UNCHANGED <<cl_vars, fn_vars, app, cfg, body, last_call, notion_pages, slack_posts>>

\* lines 486-491: the response; the background tasks run after it is sent
PeReturn ==
    /\ app = "process_emails" /\ pc = "Returning"
    /\ response' = [status |-> "success", code |-> 200, processed |-> Len(processed)]
    /\ events' = Append(events, Event("respond", 0))
    /\ pc' = IF bg_tasks = <<>> THEN "Done" ELSE "Background"
    /\ UNCHANGED <<cl_vars, fn_vars, app, cfg, body, issues, idx, processed, bg_tasks, last_call,
                   notion_pages, slack_posts, failed_from>>

\* the result of running one scheduled task
run_task(task, w, p) ==
    IF task.fn = "add_to_notion"
    THEN add_to_notion("backend", cfg.notion, issues[task.i], processed[task.i].analysis, w)
    ELSE send_slack_notification(cfg.slack, issues[task.i], processed[task.i].analysis, p)

\* The framework runs the tasks added at lines 480 and 484 one after the
\* other, in the order added, once the response has been sent; a task that
\* raises ends the sequence.
BgRun ==
    /\ app = "process_emails" /\ pc = "Background" /\ bg_tasks # <<>>
    /\ \E w \in NotionWrites, p \in SlackPosts :
          LET task == Head(bg_tasks)
              r == run_task(task, w, p)
          IN /\ last_call' = Call(task.fn, task.i, IF task.fn = "add_to_notion"
                                                   THEN cfg.notion ELSE cfg.slack, r)
             /\ notion_pages' = IF task.fn = "add_to_notion" /\ r.wrote
                                THEN Append(notion_pages, task.i) ELSE notion_pages
             /\ slack_posts' = IF task.fn = "send_slack_notification" /\ r.wrote
                               THEN Append(slack_posts, task.i) ELSE slack_posts
             /\ IF r.kind = "raise"
                THEN /\ pc' = "BgFailed"
                     /\ UNCHANGED <<bg_tasks, events>>
                ELSE /\ bg_tasks' = Tail(bg_tasks)
                     /\ events' = Append(events,
                                     Event(IF task.fn = "add_to_notion" THEN "ticket"
                                           ELSE "notify", task.i))
                     /\ pc' = IF Tail(bg_tasks) = <<>> THEN "Done" ELSE "Background"
    /\ UNCHANGED <<cl_vars, fn_vars, app, cfg, body, issues, idx, processed, response, failed_from>>

Next ==
    \/ MainFetch
    \/ MainClassify
    \/ MainAddToNotion
    \/ MainSendSlack
    \/ MainSummary
    \/ PeFetch
    \/ PeClassify
    \/ PeReturn
    \/ BgRun
    \/ GetEmails
    \/ ClassifyEmail
    \/ GetDashboardStats

Spec == InitRun /\ [][Next]_vars

(***************************************************************************)
(* The report and the statistics as functions of the classified issues     *)
(***************************************************************************)
\* the most issues a report is made of
MaxItems == 6

\* the analyses the items carry: three categories, and priorities inside
\* and outside the three the counts start with
ItemAnalyses ==
    {[MkVals(Str("Electrical"), List(<<"Check thermostat">>)) EXCEPT !.priority = Str("High")],
     [MkVals(Str("Plumbing"), List(<<"Check thermostat">>)) EXCEPT !.priority = Str("Urgent")],
     [MkVals(Str("General Inquiry"), List(<<"Check thermostat">>)) EXCEPT !.priority = Str("Low")]}

InitStats ==
    /\ fn_call = "none"
    /\ \E n \in 0..MaxItems : \E as \in [1..n -> ItemAnalyses] :
       \E llm \in SummaryLlms(TRUE) \cup SummaryLlms(FALSE) :
          fn_args = [items |-> [i \in 1..n |-> [issue |-> FetchedIssue(i), analysis |-> as[i]]],
                     llm |-> llm]
    /\ fn_out = Pending
    /\ cl_module = "none"
    /\ cl_issue = IssueRecord(1, "")
    /\ cl_llm = LlmAbsent
    /\ cl_out = Pending
    /\ app = "none"
    /\ cfg = [notion |-> FALSE, slack |-> FALSE, llm |-> FALSE, gmail |-> FALSE,
              send_notifications |-> FALSE]
    /\ RunIdle

GenerateDailySummary ==
    /\ fn_call = "none"
    /\ fn_call' = "generate_daily_summary_with_ai"
    /\ fn_out' = generate_daily_summary_with_ai(fn_args.items, fn_args.llm)
    /\ UNCHANGED <<fn_args, cl_vars, run_vars>>

\* the statistics part of get_dashboard_stats over the same items, each
\* issue holding its analysis
DashboardStats ==
    /\ fn_call = "none"
    /\ fn_call' = "get_dashboard_stats"
    /\ fn_out' = dashboard_stats([i \in 1..Len(fn_args.items) |->
                       attach_analysis(fn_args.items[i].issue, fn_args.items[i].analysis)])
    /\ UNCHANGED <<fn_args, cl_vars, run_vars>>

NextStats == GenerateDailySummary \/ DashboardStats

SpecStats == InitStats /\ [][NextStats]_vars


(***************************************************************************)
(* Properties of the classifier (checked under SpecClassify)               *)
(***************************************************************************)
CategoryStrs == {Str(c) : c \in MAINTENANCE_CATEGORIES}

\* The completion, read as the claims read it: it has a "{" followed by a
\* later "}", and what lies between the first "{" and the last "}" is a JSON
\* object (members only).
HasBracePair(text) ==
    \E i \in 1..Len(text) : \E j \in (i + 1)..Len(text) : text[i] = "{" /\ text[j] = "}"

FirstOpen(text) == CHOOSE i \in 1..Len(text) : text[i] = "{" /\ \A k \in 1..(i - 1) : text[k] # "{"

LastClose(text) == CHOOSE j \in 1..Len(text) : text[j] = "}" /\ \A k \in (j + 1)..Len(text) : text[k] # "}"

ParsesAsObject(text) ==
    /\ HasBracePair(text)
    /\ \A k \in (FirstOpen(text) + 1)..(LastClose(text) - 1) : text[k] \in MemberTokens

\* the members of the completion's object
CompletionKeys(text) ==
    {text[k] : k \in (FirstOpen(text) + 1)..(LastClose(text) - 1)}

Called == cl_module # "none"

Completed == cl_llm.kind = "completes"

Malformed == Completed /\ ~ParsesAsObject(cl_llm.text)

\* C1: classify_maintenance_issue never raises: whatever the issue and the
\* model do (handle absent, call raising, any completion), the call of either
\* classifier returns an analysis record.
C1_NeverRaises == Called => cl_out.kind = "return"

C1_Witness ==
    /\ cl_module = "backend"
    /\ cl_llm.kind = "raises"
    /\ cl_out.kind = "return"

\* C2: when the completion parses as a JSON object the returned category is
\* the completion's category if that is one of the five, and General Inquiry
\* for any other or missing value; every result has a category of the five.
C2_CategoryInEnum ==
    Called =>
        /\ cl_out.kind = "return"
        /\ HasKey(cl_out.val, "category")
        /\ cl_out.val["category"] \in CategoryStrs
        /\ (Completed /\ ParsesAsObject(cl_llm.text)) =>
              cl_out.val["category"] =
                 IF /\ "category" \in CompletionKeys(cl_llm.text)
                    /\ cl_llm.vals["category"] \in CategoryStrs
                 THEN cl_llm.vals["category"]
                 ELSE Str("General Inquiry")

C2_Witness ==
    /\ cl_module = "gmail"
    /\ Completed
    /\ ParsesAsObject(cl_llm.text)
    /\ "category" \in CompletionKeys(cl_llm.text)
    /\ cl_llm.vals["category"] = Str("HVAC")
    /\ cl_out.val["category"] = Str("HVAC")

\* C3: for every malformed completion (no "{" followed by a later "}", or
\* unparsable text between the first "{" and the last "}") and whenever the
\* handle is absent, the result is a fallback with category General Inquiry,
\* priority Medium and a non-empty action_items list.
C3_MalformedFallsBack ==
    (Called /\ (cl_llm.kind = "absent" \/ Malformed)) =>
        /\ cl_out.kind = "return"
        /\ AnalysisFields \subseteq DOMAIN cl_out.val
        /\ cl_out.val["category"] = Str("General Inquiry")
        /\ cl_out.val["priority"] = Str("Medium")
        /\ cl_out.val["action_items"].t = "list"
        /\ Len(cl_out.val["action_items"].v) >= 1

C3_Witness ==
    /\ cl_module = "gmail"
    /\ Completed
    /\ HasBracePair(cl_llm.text)
    /\ ~ParsesAsObject(cl_llm.text)
    /\ "category" \in Range(cl_llm.text)
    /\ cl_out.val["category"] = Str("General Inquiry")
    /\ cl_out.val["priority"] = Str("Medium")

\* C4: every record a classifier returns carries all five fields category,
\* summary, priority, root_cause and action_items, the missing ones being
\* filled with their defaults after a successful parse, in the batch script
\* and in the API backend.
C4_AllFieldsPresent ==
    (Called /\ cl_out.kind = "return") => AnalysisFields \subseteq DOMAIN cl_out.val

\* the failure causes of C5: handle absent, call raising, malformed completion
FailureCause ==
    IF cl_llm.kind = "absent" THEN "absent"
    ELSE IF cl_llm.kind = "raises" \/ Malformed THEN "failed"
    ELSE "none"

\* C5 as stated: whatever the cause, one and the same fallback is returned:
\* the record returned without a handle, whose summary is the snippet or a
\* placeholder when the snippet is empty, with one action item.
C5_OneFixedFallback ==
    (Called /\ FailureCause # "none") =>
        /\ cl_out = classify(cl_module, cl_issue, LlmAbsent)
        /\ cl_out.val["summary"] =
              IF cl_issue["snippet"] = Str("") THEN Str("No summary available")
              ELSE cl_issue["snippet"]
        /\ Len(cl_out.val["action_items"].v) = 1

C5_RootCause(module, cause) ==
    IF module = "gmail"
    THEN IF cause = "absent" THEN "Unable to determine (AI not configured)"
         ELSE "Classification failed - manual review needed"
    ELSE IF cause = "absent" THEN "AI not configured - manual review needed"
         ELSE "Classification failed"

C5_ActionItems(module, cause) ==
    IF module = "gmail"
    THEN IF cause = "absent" THEN <<"Manual review required">>
         ELSE <<"Manual classification required", "Review email content">>
    ELSE IF cause = "absent" THEN <<"Manual classification required">>
         ELSE <<"Manual review required">>

\* C5 (amended): the fallback is fixed per classifier and per cause: category
\* General Inquiry, priority Medium, summary the issue's snippet (also when
\* it is empty), and a root_cause string and an action_items list that
\* depend on whether the handle was absent or the call or the parse failed;
\* the list has one element, except in the batch script's failure fallback,
\* which has two.
C5_FallbackPerCause ==
    (Called /\ FailureCause # "none") =>
        /\ cl_out.kind = "return"
        /\ cl_out.val =
              [category |-> Str("General Inquiry"),
               summary |-> cl_issue["snippet"],
               priority |-> Str("Medium"),
               root_cause |-> Str(C5_RootCause(cl_module, FailureCause)),
               action_items |-> List(C5_ActionItems(cl_module, FailureCause))]
        /\ Len(cl_out.val["action_items"].v) =
              IF cl_module = "gmail" /\ FailureCause = "failed" THEN 2 ELSE 1

C5_Witness ==
    /\ cl_module = "gmail"
    /\ cl_llm.kind = "raises"
    /\ cl_issue["snippet"] = Str("")
    /\ cl_out.kind = "return"
    /\ cl_out.val["summary"] = Str("")
    /\ Len(cl_out.val["action_items"].v) = 2

(***************************************************************************)
(* Properties of the drivers (checked under Spec)                          *)
(***************************************************************************)
Count(seq, x) == Cardinality({k \in 1..Len(seq) : seq[k] = x})

Occurred(e, i) == \E k \in 1..Len(events) : events[k] = Event(e, i)

\* the position of the first occurrence of an event that occurred
Pos(e, i) == CHOOSE k \in 1..Len(events) : events[k] = Event(e, i)

IsPrefix(a, b) == Len(a) <= Len(b) /\ \A k \in 1..Len(a) : a[k] = b[k]

\* C6: in main() the run can abort only while fetching: no failure of a
\* classification, a ticket write, the formatting or a notification post
\* aborts it.
C6_AbortOnlyWhileFetching ==
    (app = "main" /\ pc = "Failed") => failed_from = "Fetching"

RunCompleted ==
    \/ app = "main" /\ pc = "Done"
    \/ app = "process_emails" /\ response.status = "success"

\* C7: when a run completes, every fetched record has been classified
\* exactly once and appended to the processed list exactly once, in fetch
\* order (same length, same ids, same order), in main() and process_emails.
C7_ProcessedOnceInOrder ==
    RunCompleted =>
        /\ Len(processed) = Len(issues)
        /\ \A i \in 1..Len(issues) :
              /\ processed[i].issue["id"] = issues[i]["id"]
              /\ issues[i]["id"] = FetchedIssue(i)["id"]
              /\ Count(events, Event("classify", i)) = 1

C7_Witness ==
    /\ app = "process_emails"
    /\ response.status = "success"
    /\ Len(issues) >= 2
    /\ Len(processed) = Len(issues)

\* the sink calls issue i is due: in main() both are always called; in
\* process_emails those that were scheduled
TicketDue(i) == app = "main" \/ cfg.notion

NotifyDue(i) == app = "main" \/ (cfg.send_notifications /\ cfg.slack)

\* C8 as stated: the fetch completes before the first classification; the
\* classification and both sink calls of an issue complete before the
\* classification of the next issue starts; the summary starts only after
\* the sink calls of the last issue; in main() and in process_emails.
C8_StrictlyOrdered ==
    /\ \A i \in 1..Len(issues) : Occurred("classify", i) => Occurred("fetch", 0)
    /\ \A i \in 1..Len(issues) :
          (i > 1 /\ Occurred("classify", i)) =>
              /\ Occurred("classify", i - 1)
              /\ TicketDue(i - 1) => Occurred("ticket", i - 1)
              /\ NotifyDue(i - 1) => Occurred("notify", i - 1)
    /\ Occurred("summary", 0) =>
          /\ Occurred("ticket", Len(issues))
          /\ Occurred("notify", Len(issues))

RECURSIVE MainOrder(_)
\* the steps of main() over n issues, in order
MainOrder(n) ==
    IF n = 0 THEN <<Event("fetch", 0)>>
    ELSE MainOrder(n - 1)
         \o <<Event("classify", n), Event("ticket", n), Event("notify", n)>>

RECURSIVE Classifications(_)
Classifications(n) ==
    IF n = 0 THEN <<>> ELSE Append(Classifications(n - 1), Event("classify", n))

RECURSIVE SinkRuns(_)
\* the background runs of process_emails over n issues, in order
SinkRuns(n) ==
    IF n = 0 THEN <<>>
    ELSE SinkRuns(n - 1)
         \o (IF cfg.notion THEN <<Event("ticket", n)>> ELSE <<>>)
         \o (IF cfg.send_notifications /\ cfg.slack THEN <<Event("notify", n)>> ELSE <<>>)

PeOrder(n) ==
    <<Event("fetch", 0)>> \o Classifications(n) \o <<Event("respond", 0)>> \o SinkRuns(n)

\* C8 (amended): main() is strictly ordered as stated.  In process_emails
\* the fetch completes before the first classification and the issues are
\* classified in fetch order, but the sink calls are only scheduled in the
\* loop: they run after the response, hence after the classification of
\* every issue, in the order scheduled (ticket, then notification, issue by
\* issue).
C8_OrderedPerDriver ==
    /\ app = "main" =>
          IsPrefix(events, Append(MainOrder(Len(issues)), Event("summary", 0)))
    /\ app = "process_emails" => IsPrefix(events, PeOrder(Len(issues)))

C8_Witness ==
    /\ app = "process_emails"
    /\ pc = "Done"
    /\ Len(issues) >= 2
    /\ Occurred("ticket", 2)
    /\ Occurred("notify", 2)
    /\ Pos("ticket", 1) > Pos("classify", 2)

NotionStep ==
    \/ app = "main" /\ pc = "Notion"
    \/ app = "process_emails" /\ pc = "Background" /\ bg_tasks # <<>>
       /\ Head(bg_tasks).fn = "add_to_notion"

\* C9: add_to_notion is best-effort: without a configured client it makes no
\* write and returns normally; a failing write or payload, of any error
\* kind, is caught and not propagated; the issue and analysis records are
\* left unchanged.
C9_NotionBestEffort ==
    [][NotionStep =>
          /\ last_call'.fn = "add_to_notion"
          /\ last_call'.result.kind = "return"
          /\ pc' \notin {"Failed", "BgFailed"}
          /\ ~last_call'.client =>
                (notion_pages' = notion_pages /\ last_call'.result.attempts = 0)
          /\ issues' = issues
          /\ processed' = processed]_vars

C9_Witness ==
    /\ app = "process_emails"
    /\ last_call.fn = "add_to_notion"
    /\ last_call.result.swallowed = "KeyError"
    /\ last_call.result.kind = "return"
    /\ pc # "BgFailed"

\* C10: the notification sink is best-effort like the ticket sink:
\* send_slack_message and send_slack_notification make no post and return
\* normally without a client, and every failure of the post, of whatever
\* error kind, is caught, not propagated and not retried.
C10_SlackBestEffort ==
    last_call.fn \in {"send_slack_message", "send_slack_notification"} =>
        /\ last_call.result.kind = "return"
        /\ last_call.result.attempts <= 1
        /\ ~last_call.client => (~last_call.result.wrote /\ last_call.result.attempts = 0)

(***************************************************************************)
(* Properties of the sinks' payloads (checked under SpecTexts)             *)
(***************************************************************************)
\* C11: every text field submitted to an external sink, in the ticket payload
\* and in the notification payload (fallback text and block texts), has at
\* most 2000 characters.
C11_FieldsAtMost2000 ==
    fn_call \in {"gmail.add_to_notion", "backend.add_to_notion",
                 "gmail.format_maintenance_slack_message",
                 "backend.send_slack_notification"}
    => \A f \in DOMAIN fn_out.val : fn_out.val[f] <= 2000

(***************************************************************************)
(* Properties of the formatter (checked under SpecGlyphs)                  *)
(***************************************************************************)
InEnum(val, enum) == val.t = "str" /\ val.v[1] \in enum

\* C12: the formatting never errors on out-of-enum input: for every category
\* and priority value (the other fields being well formed) it returns, with
\* the mapped glyph for a value inside the enumeration and the default glyph
\* for any value outside it.
C12_FormatNeverErrors ==
    /\ fn_call \in {"gmail.format_maintenance_slack_message",
                    "backend.send_slack_notification"}
    /\ Iterable(fn_args.analysis["action_items"])
    => /\ fn_out.kind = "return"
       /\ LET c == fn_args.analysis["category"]
              p == fn_args.analysis["priority"]
          IN /\ fn_out.val.category_emoji =
                    IF InEnum(c, MAINTENANCE_CATEGORIES) THEN category_emojis[c.v[1]]
                    ELSE "clipboard"
             /\ fn_out.val.priority_emoji =
                    IF InEnum(p, PRIORITIES) THEN priority_emojis[p.v[1]]
                    ELSE "yellow_circle"

(***************************************************************************)
(* Properties of the endpoints of the backend (checked under Spec)         *)
(***************************************************************************)
\* C13: a run whose mail source is not established, or whose fetch fails, is
\* fatal with no partial output: no record is fetched, no issue classified,
\* no ticket or notification made or scheduled, and every endpoint that
\* fetches answers with a source-unavailable failure, status 503 when the
\* mail service is not initialised.
C13_SourceFailureIs503 ==
    failed_from = "Fetching" =>
        /\ pc = "Failed"
        /\ issues = <<>> /\ processed = <<>> /\ events = <<>>
        /\ bg_tasks = <<>> /\ notion_pages = <<>> /\ slack_posts = <<>>
        /\ app # "main" =>
              /\ response.status = "error"
              /\ ~cfg.gmail => response.code = 503

\* C14: in the backend only a mail-source failure propagates: once the fetch
\* has succeeded, process_emails, classify_email and get_dashboard_stats
\* answer with a success for every behaviour of the model and of the sinks
\* (a request for an id no message has is not one of these cases).
C14_OnlySourceFailurePropagates ==
    (app \in {"process_emails", "classify_email", "get_dashboard_stats"}
        /\ failed_from \notin {"Fetching", "Finding"}
        /\ pc # "Idle")
    => /\ pc # "Failed"
       /\ response.status # "error"

\* C15: with no model and no ticket store, process_emails over n >= 1 fetched
\* issues does not fail, answers status success with processed = n, gives
\* every issue the analysis General Inquiry / Medium, and neither makes nor
\* schedules a ticket write.
C15_DegradedRunSucceeds ==
    (app = "process_emails" /\ ~cfg.llm /\ ~cfg.notion) =>
        /\ pc = "Failed" => failed_from = "Fetching"
        /\ \A k \in 1..Len(processed) :
              /\ processed[k].analysis["category"] = Str("General Inquiry")
              /\ processed[k].analysis["priority"] = Str("Medium")
              /\ processed[k].issue["analysis"].d = processed[k].analysis
        /\ (pc \in {"Background", "Done", "BgFailed"} /\ Len(issues) >= 1) =>
              /\ response = [status |-> "success", code |-> 200, processed |-> Len(issues)]
              /\ Len(processed) = Len(issues)
        /\ notion_pages = <<>>
        /\ last_call.fn # "add_to_notion"
        /\ \A k \in 1..Len(bg_tasks) : bg_tasks[k].fn # "add_to_notion"

C15_Witness ==
    /\ app = "process_emails" /\ ~cfg.llm /\ ~cfg.notion
    /\ pc = "Done"
    /\ Len(issues) >= 2
    /\ response.processed = Len(issues)
    /\ processed[2].analysis["priority"] = Str("Medium")

(***************************************************************************)
(* Properties of the report and of the statistics (checked under           *)
(* SpecStats)                                                              *)
(***************************************************************************)
RECURSIVE SumOver(_, _)
\* the sum of the counts n holds under the keys
SumOver(n, keys) ==
    IF keys = {} THEN 0
    ELSE LET k == CHOOSE x \in keys : TRUE
         IN n[k] + SumOver(n, keys \ {k})

RECURSIVE SumCounts(_)
\* the sum of the count fields of a list of lines
SumCounts(lines) == IF lines = <<>> THEN 0 ELSE Head(lines).count + SumCounts(Tail(lines))

SummaryCalled == fn_call = "generate_daily_summary_with_ai"

StatsCalled == fn_call = "get_dashboard_stats"

\* C16: on an empty sequence generate_daily_summary_with_ai returns the fixed
\* "no issues" message without invoking the model; on a non-empty one its
\* category counts sum to the number of items; the category counts of
\* get_dashboard_stats sum to the number of classified issues.
C16_CategoryCountsSum ==
    /\ SummaryCalled =>
          /\ fn_out.kind = "return"
          /\ IF fn_args.items = <<>>
             THEN fn_out.val.kind = "no_issues" /\ fn_out.val.llm_calls = 0
             ELSE /\ fn_out.val.kind \in {"ai", "template"}
                  /\ SumOver(fn_out.val.counts.category_counts.n,
                             DOMAIN fn_out.val.counts.category_counts.n)
                        = Len(fn_args.items)
                  /\ SumCounts(fn_out.val.category_lines) = Len(fn_args.items)
    /\ StatsCalled =>
          /\ fn_out.kind = "return"
          /\ SumCounts(fn_out.val.by_category) = Len(fn_args.items)
          /\ fn_out.val.total_issues = Len(fn_args.items)

C16_Witness ==
    /\ SummaryCalled
    /\ Len(fn_args.items) = 3
    /\ fn_out.val.counts.category_counts.n = [k \in {"Electrical", "Plumbing"} |->
                                                 IF k = "Electrical" THEN 2 ELSE 1]

\* C17: the priority counts of generate_daily_summary_with_ai start at zero
\* and are never incremented: the prompt, the header and the templated
\* report show zero for every priority, whatever the items; the priority
\* counts of get_dashboard_stats are incremented and sum to the number of
\* classified issues.
C17_PriorityCounts ==
    /\ (SummaryCalled /\ fn_out.kind = "return") =>
          /\ \A k \in DOMAIN fn_out.val.counts.priority_counts.n :
                fn_out.val.counts.priority_counts.n[k] = 0
          /\ \A p \in PRIORITIES : fn_out.val.priority_line[p] = 0
          /\ \A i \in 1..Len(fn_out.val.prompt) :
                \A k \in DOMAIN fn_out.val.prompt[i].priority_counts :
                   fn_out.val.prompt[i].priority_counts[k] = 0
    /\ (StatsCalled /\ fn_out.kind = "return") =>
          SumOver(fn_out.val.by_priority, DOMAIN fn_out.val.by_priority)
             = Len(fn_args.items)

C17_Witness ==
    /\ SummaryCalled
    /\ fn_out.val.kind = "ai"
    /\ Len(fn_args.items) >= 2
    /\ \A i \in 1..Len(fn_args.items) : fn_args.items[i].analysis["priority"] = Str("High")
    /\ fn_out.val.priority_line["High"] = 0

Abs(x) == IF x < 0 THEN -x ELSE x

ItemCategories == [i \in 1..Len(fn_args.items) |-> fn_args.items[i].analysis["category"]]

\* C18: in get_dashboard_stats, for a total above zero each category's
\* percentage is count / total * 100 rounded to one decimal (here in tenths
\* of a percent): [Electrical, Electrical, Plumbing] gives 66.7 and 33.3;
\* for a total of zero the category list is empty and nothing is divided.
C18_Percentages ==
    (StatsCalled /\ fn_out.kind = "return") =>
        /\ fn_out.val.total_issues = 0 => fn_out.val.by_category = <<>>
        /\ \A i \in 1..Len(fn_out.val.by_category) :
              LET line == fn_out.val.by_category[i]
              IN /\ fn_out.val.total_issues > 0
                 /\ 2 * Abs(line.percentage * fn_out.val.total_issues - line.count * 1000)
                       <= fn_out.val.total_issues
        /\ ItemCategories = <<Str("Electrical"), Str("Electrical"), Str("Plumbing")>> =>
              fn_out.val.by_category =
                 <<[category |-> "Electrical", count |-> 2, percentage |-> 667],
                   [category |-> "Plumbing", count |-> 1, percentage |-> 333]>>

C18_Witness ==
    /\ StatsCalled
    /\ ItemCategories = <<Str("Electrical"), Str("Electrical"), Str("Plumbing")>>
    /\ fn_out.val.by_category[1].percentage = 667
    /\ fn_out.val.by_category[2].percentage = 333

(***************************************************************************)
(* Frame properties of the drivers (checked under Spec)                    *)
(***************************************************************************)
\* C19: the send_notifications flag of process_emails gates the notification
\* sink only.  With the flag false no notification task is scheduled (or
\* run); a ticket write is scheduled for each issue exactly when the ticket
\* store is configured; with the flag true and Slack configured exactly one
\* notification task is scheduled per issue; the processed count and the
\* issues returned do not depend on the flag.
C19_FlagGatesNotificationsOnly ==
    app = "process_emails" =>
        \* until the response is sent every scheduled task is in bg_tasks
        /\ pc \in {"Classifying", "Returning"} =>
              \A i \in 1..Len(processed) :
                 /\ Count(bg_tasks, Task("add_to_notion", i)) = IF cfg.notion THEN 1 ELSE 0
                 /\ Count(bg_tasks, Task("send_slack_notification", i)) =
                       IF cfg.send_notifications /\ cfg.slack THEN 1 ELSE 0
        /\ \A k \in 1..Len(bg_tasks) : bg_tasks[k].i \in 1..Len(processed)
        /\ ~cfg.send_notifications =>
              /\ \A k \in 1..Len(bg_tasks) : bg_tasks[k].fn # "send_slack_notification"
              /\ last_call.fn # "send_slack_notification"
              /\ slack_posts = <<>>
        \* the answer is stated without the flag
        /\ response.status = "success" =>
              /\ response.processed = Len(issues)
              /\ Len(processed) = Len(issues)
              /\ \A i \in 1..Len(issues) :
                    /\ processed[i].issue = issues[i]
                    /\ processed[i].analysis \in
                          {backend_classify_maintenance_issue(FetchedIssue(i), llm).val :
                              llm \in LlmChoices(cfg.llm)}

C19_Witness ==
    /\ app = "process_emails"
    /\ ~cfg.send_notifications /\ cfg.slack /\ cfg.notion
    /\ pc = "Returning"
    /\ Len(processed) >= 2
    /\ bg_tasks = <<Task("add_to_notion", 1), Task("add_to_notion", 2)>>

\* C20 as stated: an issue record is never modified after fetch: the
\* classify step, the sinks and the driver leave its id, subject, sender,
\* date and snippet unchanged and add no key to it, in main(),
\* process_emails, classify_email and get_dashboard_stats.
C20_NoKeyAdded ==
    \A i \in 1..Len(issues) :
       /\ DOMAIN issues[i] = IssueKeys
       /\ \A k \in IssueKeys : issues[i][k] = FetchedIssue(i)[k]

\* C20 (amended): the five fetched fields of a record are never changed or
\* removed.  main() adds no key.  The endpoints of the backend add one key,
\* analysis, to each record they classify, holding the analysis returned for
\* it; the classify step and the sinks modify nothing.
C20_FetchedFieldsKept ==
    /\ \A i \in 1..Len(issues) :
          /\ IssueKeys \subseteq DOMAIN issues[i]
          /\ \A k \in IssueKeys : issues[i][k] = FetchedIssue(i)[k]
          /\ DOMAIN issues[i] \subseteq IssueKeys \cup {"analysis"}
          /\ app = "main" => DOMAIN issues[i] = IssueKeys
          /\ "analysis" \in DOMAIN issues[i] =>
                \E j \in 1..Len(processed) :
                   /\ processed[j].issue["id"] = issues[i]["id"]
                   /\ issues[i]["analysis"].d = processed[j].analysis
    /\ \A j \in 1..Len(processed) :
          \E i \in 1..Len(issues) : processed[j].issue = issues[i]

C20_Witness ==
    /\ app = "process_emails"
    /\ pc = "Done"
    /\ Len(issues) >= 2
    /\ Occurred("ticket", 2)
    /\ Occurred("notify", 2)
    /\ DOMAIN issues[2] = IssueKeys \cup {"analysis"}
    /\ issues[2]["snippet"] = FetchedIssue(2)["snippet"]

MinOf(a, b) == IF a < b THEN a ELSE b

\* C21: in the report of generate_daily_summary_with_ai the category lines
\* (one per category counted) are in non-increasing order of count; the "Top
\* Issues" of the templated report are the first min(5, n) items of the
\* input, in input order, numbered from 1; with the model absent or its call
\* raising the templated report is returned and nothing is raised.
C21_ReportOrderAndFallback ==
    (SummaryCalled /\ fn_args.items # <<>>) =>
        /\ fn_out.kind = "return"
        /\ LET lines == fn_out.val.category_lines
               counted == fn_out.val.counts.category_counts.n
           IN /\ \A i \in 1..Len(lines) : \A j \in i..Len(lines) :
                    lines[i].count >= lines[j].count
              /\ {lines[i].category : i \in 1..Len(lines)} = DOMAIN counted
              /\ Len(lines) = Cardinality(DOMAIN counted)
              /\ \A i \in 1..Len(lines) : lines[i].count = counted[lines[i].category]
        /\ fn_args.llm.kind \in {"absent", "raises"} => fn_out.val.kind = "template"
        /\ fn_args.llm.kind = "completes" => fn_out.val.kind = "ai"
        /\ fn_out.val.kind = "template" =>
              LET top == fn_out.val.top_issues
              IN /\ Len(top) = MinOf(5, Len(fn_args.items))
                 /\ \A i \in 1..Len(top) :
                       /\ top[i].idx = i
                       /\ top[i].id = fn_args.items[i].issue["id"]
                       /\ top[i].category = fn_args.items[i].analysis["category"]
                       /\ top[i].priority = fn_args.items[i].analysis["priority"]

C21_Witness ==
    /\ SummaryCalled
    /\ Len(fn_args.items) = 6
    /\ fn_args.llm.kind = "raises"
    /\ fn_out.val.kind = "template"
    /\ Len(fn_out.val.top_issues) = 5
    /\ fn_out.val.top_issues[5].id = Str("m5")
    \* the category counted first is not the one listed first
    /\ ItemCategories[1] = Str("Plumbing")
    /\ fn_out.val.category_lines[1] = [category |-> "Electrical", count |-> 3]

====
